---- MODULE Spec2Model ----
(***************************************************************************)
(* A model of sdks/typescript/src/apache_beam/transforms/localParDo.ts:    *)
(* the localParDo transform builder with its side-input wiring, and the    *)
(* ParDoParam family with its runtime provider binding.                    *)
(*                                                                         *)
(* JavaScript objects are modelled as heap cells carrying their own        *)
(* properties and a prototype link; a property read walks the prototype    *)
(* chain, a property write creates or replaces an own property.            *)
(***************************************************************************)
EXTENDS Integers, Sequences, FiniteSets, TLC

VARIABLES
    params,               \* heap of ParDoParam objects (declared ones and Object.create copies)
    ctxs,                 \* heap of context objects (caller's, DoFn default, merged, contextCopy)
    transform,            \* the closure returned by localParDo: doFn, captured context, name
    protos,               \* the transform descriptors (runnerApi.PTransform) handed to expandInternal
    pcollections,         \* pipeline.context.components.pcollections: id -> windowingStrategyId
    windowingStrategies,  \* pipeline.context.components.windowingStrategies: id -> windowFn urn
    updates,              \* per value provider, the update(param, value) calls it received
    last                  \* the operation performed by the last step and what it returned or threw

vars == <<params, ctxs, transform, protos, pcollections, windowingStrategies, updates, last>>

-----------------------------------------------------------------------------
(* Bounds of the model. *)

\* expansions performed (each on its own, fresh transform descriptor)
MaxProtos == 2
\* tagged copies on the heap up to which copySideInputWithId is called directly
MaxCopies == 1
\* update calls a value provider records
MaxUpdates == 1

-----------------------------------------------------------------------------
(* JavaScript values. *)

\* an own property that does not exist on the object
Absent == "<absent>"
\* the JavaScript value undefined
Undefined == "<undefined>"

\* a context argument: undefined, null, a number, or a reference into ctxs
CtxUndefined == [k |-> "undef", n |-> 0]
CtxNull == [k |-> "null", n |-> 0]
CtxNumber == [k |-> "num", n |-> 5]
CtxObject(ref) == [k |-> "obj", n |-> ref]

\* a context entry's value: a literal, or a reference into params
Literal == [k |-> "lit", n |-> 1]
ParamRef(p) == [k |-> "param", n |-> p]

EmptyMap == [x \in {} |-> ""]

-----------------------------------------------------------------------------
(* The ParDoParam class family. *)

\* A heap cell of params.  proto = 0: the object was made by a constructor and
\* its prototype is the prototype object of class cls; proto > 0: the object
\* was made by Object.create(params[proto]).
NewSideInputParam(pcoll, accessPattern) ==
    [proto |-> 0, cls |-> "SideInputParam", parDoParamName |-> "sideInput",
     pcoll |-> pcoll, accessor |-> accessPattern,
     sideInputId |-> Absent, provider |-> Absent]

NewParDoUpdateParam(name) ==
    [proto |-> 0, cls |-> "ParDoUpdateParam", parDoParamName |-> name,
     pcoll |-> Absent, accessor |-> Absent,
     sideInputId |-> Absent, provider |-> Absent]

\* Object.create(params[p]): no own property, prototype p
ObjectCreateParam(p) ==
    [proto |-> p, cls |-> Absent, parDoParamName |-> Absent,
     pcoll |-> Absent, accessor |-> Absent,
     sideInputId |-> Absent, provider |-> Absent]

\* a property read: the own property, else the prototype chain's, else undefined
RECURSIVE Read(_, _, _)
Read(h, o, f) ==
    IF h[o][f] # Absent THEN h[o][f]
    ELSE IF h[o].proto = 0 THEN Undefined
    ELSE Read(h, h[o].proto, f)

\* the class whose prototype object ends o's prototype chain
RECURSIVE ClassOf(_, _)
ClassOf(h, o) == IF h[o].proto = 0 THEN h[o].cls ELSE ClassOf(h, h[o].proto)

\* value instanceof SideInputParam
InstanceOfSideInputParam(h, v) ==
    /\ v.k = "param"
    /\ ClassOf(h, v.n) = "SideInputParam"

\* mutant: the tag is written on the parameter itself, which is returned
CopySideInputWithIdInPlace(h, sideInput, id) ==
    [heap |-> [h EXCEPT ![sideInput].sideInputId = id], copy |-> sideInput]

\* copySideInputWithId: copy = Object.create(sideInput); copy.sideInputId = id;
\* delete copy.pcoll (the copy has no own pcoll: the inherited one stays readable)
CopySideInputWithId(h, sideInput, id) ==
    LET copy == Len(h) + 1
        h1 == Append(h, ObjectCreateParam(sideInput))
        h2 == [h1 EXCEPT ![copy].sideInputId = id]
        h3 == [h2 EXCEPT ![copy].pcoll = Absent]
    IN  [heap |-> h3, copy |-> copy]

\* the stub value provider: the value it associates with a parameter instance
ProviderLookup(prov, p) == prov \o ":" \o ToString(p)

\* mutant: lookup without the guard on the provider
ParDoLookupParamLookupUnguarded(h, p) ==
    [err |-> "", value |-> ProviderLookup(Read(h, p, "provider"), p)]

\* ParDoLookupParam.lookup
ParDoLookupParamLookup(h, p) ==
    IF Read(h, p, "provider") = Undefined
    THEN [err |-> "usage", value |-> ""]
    ELSE [err |-> "", value |-> ProviderLookup(Read(h, p, "provider"), p)]

\* ParDoUpdateParam.update: the provider's log after the call
ParDoUpdateParamUpdate(h, log, p, value) ==
    IF Read(h, p, "provider") = Undefined
    THEN [err |-> "usage", log |-> log]
    ELSE [err |-> "",
          log |-> [log EXCEPT ![Read(h, p, "provider")] =
                        Append(@, [param |-> p, value |-> value])]]

-----------------------------------------------------------------------------
(* Context objects. *)

\* A heap cell of ctxs: own is the sequence of own enumerable properties in
\* insertion order, each [key, val]; proto = 0: no prototype on this heap.
MergedRef == 3
CopyRef == 4

\* h with cell c stored at ref
Store(h, ref, c) == (ref :> c) @@ h

\* obj[key] = val on a sequence of own properties: replaces the value of an
\* existing key in place, appends a new key
SetOwn(own, key, val) ==
    IF \E i \in 1..Len(own) : own[i].key = key
    THEN [i \in 1..Len(own) |->
            IF own[i].key = key THEN [key |-> key, val |-> val] ELSE own[i]]
    ELSE Append(own, [key |-> key, val |-> val])

\* the own enumerable properties an object spread ...v copies: those of an
\* object, none for undefined, null or a number
SpreadSource(h, v) == IF v.k = "obj" THEN h[v.n].own ELSE <<>>

\* { ...target, ...entries }: the properties of entries set on target in order
RECURSIVE Spread(_, _)
Spread(target, entries) ==
    IF entries = <<>> THEN target
    ELSE Spread(SetOwn(target, Head(entries).key, Head(entries).val), Tail(entries))

\* JavaScript truthiness of a context value
Truthy(v) == v.k = "obj" \/ (v.k = "num" /\ v.n # 0)

\* extractContext(fn)
ExtractContext(fn) == fn.beamPardoContextSpec

\* extractName of ./transform on a string
ExtractName(name) == name

\* mutant: the DoFn's default context wins over the caller's on a shared key
MergeContextDefaultWins(h, doFn, context) ==
    IF Truthy(ExtractContext(doFn))
    THEN [heap |-> Store(h, MergedRef,
                     [proto |-> 0,
                      own |-> Spread(Spread(<<>>, SpreadSource(h, context)),
                                     SpreadSource(h, ExtractContext(doFn)))]),
          context |-> CtxObject(MergedRef)]
    ELSE [heap |-> h, context |-> context]

\* localParDo, lines 91-93:
\* if (extractContext(doFn)) context = { ...extractContext(doFn), ...context }
MergeContext(h, doFn, context) ==
    IF Truthy(ExtractContext(doFn))
    THEN [heap |-> Store(h, MergedRef,
                     [proto |-> 0,
                      own |-> Spread(Spread(<<>>, SpreadSource(h, ExtractContext(doFn))),
                                     SpreadSource(h, context))]),
          context |-> CtxObject(MergedRef)]
    ELSE [heap |-> h, context |-> context]

\* localParDo: the closure it returns (withName(name, expandInternal))
LocalParDo(h, doFn, context) ==
    LET m == MergeContext(h, doFn, context)
    IN  [heap |-> m.heap,
         transform |->
            [built |-> TRUE, doFn |-> doFn, context |-> m.context,
             name |-> "parDo(" \o ExtractName(IF doFn.beamName \in {Undefined, ""}
                                              THEN doFn.exportName
                                              ELSE doFn.beamName) \o ")"]]

-----------------------------------------------------------------------------
(* The pipeline's component registry and the transform descriptor. *)

GlobalWindowsUrn == "beam:window_fn:global_windows:v1"
GLOBAL_WINDOW_MAPPING_FN_URN == "urns.GLOBAL_WINDOW_MAPPING_FN_URN"
IDENTITY_WINDOW_MAPPING_FN_URN == "urns.IDENTITY_WINDOW_MAPPING_FN_URN"
ASSIGN_MAX_TIMESTAMP_WINDOW_MAPPING_FN_URN == "urns.ASSIGN_MAX_TIMESTAMP_WINDOW_MAPPING_FN_URN"
LOCAL_DOFN_EXPORT_NAME == "urns.LOCAL_DOFN_EXPORT_NAME"
LocalParDoUrn == "beam:transform:pardo:v1"

\* transformProto.spec before expandInternal assigns it
NoSpec == [urn |-> Undefined,
           doFn |-> [urn |-> Undefined, payload |-> Undefined],
           sideInputs |-> EmptyMap]

\* the descriptor the pipeline hands to expandInternal: the main input only
FreshProto(input) == [inputs |-> ("main" :> input), spec |-> NoSpec]

\* pipeline.createPCollectionInternal: a fresh dataset handle, recorded in the
\* registry, its windowing strategy not yet assigned
CreatePCollectionInternal(pcolls) ==
    LET id == "out" \o ToString(Cardinality(DOMAIN pcolls))
    IN  [pcollections |-> (id :> Undefined) @@ pcolls, id |-> id]

\* mutant: rule 2 (equal strategy ids) tried before rule 1 (global side)
WindowMappingFnUrnIdentityFirst(isGlobalSide, mainWindowingStrategyId, sideWindowingStrategyId) ==
    IF mainWindowingStrategyId = sideWindowingStrategyId
    THEN IDENTITY_WINDOW_MAPPING_FN_URN
    ELSE IF isGlobalSide THEN GLOBAL_WINDOW_MAPPING_FN_URN
    ELSE ASSIGN_MAX_TIMESTAMP_WINDOW_MAPPING_FN_URN

\* expandInternal, lines 130-134
WindowMappingFnUrn(isGlobalSide, mainWindowingStrategyId, sideWindowingStrategyId) ==
    IF isGlobalSide THEN GLOBAL_WINDOW_MAPPING_FN_URN
    ELSE IF mainWindowingStrategyId = sideWindowingStrategyId
    THEN IDENTITY_WINDOW_MAPPING_FN_URN
    ELSE ASSIGN_MAX_TIMESTAMP_WINDOW_MAPPING_FN_URN

\* mutant: the side input is registered under the bare context key
SideInputNameBare(name) == name

\* expandInternal, line 107
SideInputName(name) == "side." \o name

\* expandInternal, lines 106-140: the loop body for one context entry.  st is
\* the state the loop threads: the params heap, the ctxs heap with contextCopy
\* at st.copy, transformProto.inputs, sideInputs, and the error thrown if any.
\* A property read of undefined throws a TypeError, ending the loop with
\* the assignments made so far in place.
SideInputEntry(st, input, pcolls, strategies, name, value) ==
    IF InstanceOfSideInputParam(st.params, value)
    THEN LET inputName == SideInputName(name)
             inputs1 == (inputName :> Read(st.params, value.n, "pcoll")) @@ st.inputs
             c == CopySideInputWithId(st.params, value.n, inputName)
             st1 == [st EXCEPT !.inputs = inputs1,
                               !.params = c.heap,
                               !.ctxs[st.copy].own = SetOwn(@, name, ParamRef(c.copy))]
         IN  IF input \notin DOMAIN pcolls \/ inputs1[inputName] \notin DOMAIN pcolls
             THEN [st1 EXCEPT !.err = "TypeError"]
             ELSE LET mainWindowingStrategyId == pcolls[input]
                      sideWindowingStrategyId == pcolls[inputs1[inputName]]
                  IN  IF sideWindowingStrategyId \notin DOMAIN strategies
                      THEN [st1 EXCEPT !.err = "TypeError"]
                      ELSE LET isGlobalSide ==
                                   strategies[sideWindowingStrategyId] = GlobalWindowsUrn
                           IN  [st1 EXCEPT !.sideInputs = (inputName :>
                                   [accessPattern |-> Read(st.params, value.n, "accessor"),
                                    viewFn |-> "unused",
                                    windowMappingFn |->
                                        WindowMappingFnUrn(isGlobalSide,
                                                           mainWindowingStrategyId,
                                                           sideWindowingStrategyId)]) @@ @]
    ELSE [st EXCEPT !.ctxs[st.copy].own = SetOwn(@, name, value)]

\* expandInternal, line 105: the loop over Object.entries(context)
RECURSIVE SideInputLoop(_, _, _, _, _)
SideInputLoop(st, input, pcolls, strategies, entries) ==
    IF entries = <<>> \/ st.err # "" THEN st
    ELSE SideInputLoop(
            SideInputEntry(st, input, pcolls, strategies,
                           Head(entries).key, Head(entries).val),
            input, pcolls, strategies, Tail(entries))

\* mutant: contextCopy is the context itself
ObjectCreateCtxAlias(h, context) ==
    IF context.k = "obj" THEN [heap |-> h, ref |-> context.n]
    ELSE [heap |-> Store(h, CopyRef, [proto |-> 0, own |-> <<>>]), ref |-> CopyRef]

\* Object.create(context) for contextCopy: a new cell whose prototype is the
\* context (no prototype on this heap for Object.create(null))
ObjectCreateCtx(h, context) ==
    [heap |-> Store(h, CopyRef, [proto |-> context.n, own |-> <<>>]), ref |-> CopyRef]

\* expandInternal, lines 147-158: the FunctionSpec written to transformProto.spec;
\* the payload is kept as the ParDoPayload message handed to toBinary
TransformSpec(doFn, sideInputs) ==
    [urn |-> LocalParDoUrn,
     doFn |-> [urn |-> LOCAL_DOFN_EXPORT_NAME, payload |-> doFn.exportName],
     sideInputs |-> sideInputs]

\* expandInternal on (input, pipeline, transformProto) with the captured doFn
\* and context: the heaps, the descriptor and the registry after the call,
\* the contextCopy local, the error thrown if any, the handle returned
ExpandInternal(ph, ch, doFn, context, input, pcolls, strategies, transformProto) ==
    LET isObject == context.k \in {"obj", "null"}
        oc == IF isObject THEN ObjectCreateCtx(ch, context)
              ELSE [heap |-> ch, ref |-> context.n]
        st0 == [params |-> ph, ctxs |-> oc.heap, copy |-> oc.ref,
                inputs |-> transformProto.inputs, sideInputs |-> EmptyMap,
                err |-> IF context.k = "null" THEN "TypeError" ELSE ""]
        st == IF context.k = "obj"
              THEN SideInputLoop(st0, input, pcolls, strategies, ch[context.n].own)
              ELSE st0
        out == CreatePCollectionInternal(pcolls)
    IN  IF st.err # ""
        THEN [params |-> st.params, ctxs |-> st.ctxs,
              proto |-> [transformProto EXCEPT !.inputs = st.inputs],
              pcollections |-> pcolls, err |-> st.err,
              contextCopy |-> CtxUndefined, output |-> Undefined]
        ELSE [params |-> st.params, ctxs |-> st.ctxs,
              proto |-> [inputs |-> st.inputs,
                         spec |-> TransformSpec(doFn, st.sideInputs)],
              pcollections |-> out.pcollections, err |-> "",
              contextCopy |-> IF isObject THEN CtxObject(st.copy) ELSE context,
              output |-> out.id]

-----------------------------------------------------------------------------
(* The inputs of the model. *)

Keys == {"a", "b"}
Tags == {"side.a", "t"}
Providers == {"provA", "provB"}
UpdateValues == {"v1", "v2"}
MainInputs == {"pc1", "pc2"}
ExportNames == {"double", ""}

\* the parameters the user declares: side inputs on pc2 and on pc3, and a
\* parameter that is no side input
DeclaredParams ==
    << NewSideInputParam("pc2", "beam:side_input:iterable:v1"),
       NewSideInputParam("pc3", "beam:side_input:multimap:v1"),
       NewParDoUpdateParam("counter") >>

\* a value of a context entry, in the caller's context and in a DoFn's default
EntryValues == {Literal, ParamRef(1), ParamRef(2), ParamRef(3)}
DefaultEntryValues == {Literal, ParamRef(1)}

\* the context objects one can write over Keys with the given values, keys in
\* the order a, b
ContextsOver(values) ==
    {<<>>}
    \cup {<<[key |-> k, val |-> v]>> : k \in Keys, v \in values}
    \cup {<<[key |-> "a", val |-> v], [key |-> "b", val |-> w]>> :
            v \in values, w \in values}

Contexts == ContextsOver(EntryValues)
DefaultContexts == ContextsOver(DefaultEntryValues)

\* the registries: pc1 under W1, pc3 under W2, and pc2 under W1, under the
\* global strategy WG, under a strategy WX that is not registered, or not
\* registered itself
Registries ==
    {("pc1" :> "W1") @@ ("pc3" :> "W2")}
    \cup {("pc1" :> "W1") @@ ("pc3" :> "W2") @@ ("pc2" :> w) : w \in {"W1", "WG", "WX"}}

Strategies ==
    ("W1" :> "beam:window_fn:fixed_windows:v1")
    @@ ("W2" :> "beam:window_fn:sliding_windows:v1")
    @@ ("WG" :> GlobalWindowsUrn)

\* ref of the caller's context object and of the DoFn's default context object
CallerRef == 1
DefaultRef == 2

DoFns ==
    {[exportName |-> e, beamName |-> Undefined, beamPardoContextSpec |-> d] :
        e \in ExportNames, d \in {CtxUndefined, CtxObject(DefaultRef)}}

CallerContexts == {CtxUndefined, CtxNull, CtxNumber, CtxObject(CallerRef)}

NoTransform ==
    [built |-> FALSE,
     doFn |-> [exportName |-> "", beamName |-> Undefined,
               beamPardoContextSpec |-> CtxUndefined],
     context |-> CtxUndefined, name |-> "", callerContext |-> CtxUndefined]

NoLast == [op |-> "none", err |-> "", param |-> 0, ret |-> 0, value |-> "",
           input |-> "", ctx |-> CtxUndefined]

-----------------------------------------------------------------------------
(* Graph construction: Spec. *)

Init ==
    /\ params = DeclaredParams
    /\ ctxs \in {(CallerRef :> [proto |-> 0, own |-> c])
                 @@ (DefaultRef :> [proto |-> 0, own |-> d]) :
                    c \in Contexts, d \in DefaultContexts}
    /\ transform = NoTransform
    /\ protos = <<>>
    /\ pcollections \in Registries
    /\ windowingStrategies = Strategies
    /\ updates = [p \in Providers |-> <<>>]
    /\ last = NoLast

\* const t = localParDo(doFn, context); a behaviour builds one transform
Build ==
    /\ ~transform.built
    /\ \E doFn \in DoFns, context \in CallerContexts :
         LET r == LocalParDo(ctxs, doFn, context)
         IN  /\ ctxs' = r.heap
             /\ transform' = [built |-> r.transform.built, doFn |-> r.transform.doFn,
                              context |-> r.transform.context, name |-> r.transform.name,
                              callerContext |-> context]
             /\ last' = [NoLast EXCEPT !.op = "build", !.ctx = context]
    /\ UNCHANGED <<params, protos, pcollections, windowingStrategies, updates>>

\* the pipeline applies the transform to a main input: expandInternal runs on
\* a descriptor of its own
Expand ==
    /\ transform.built
    /\ Len(protos) < MaxProtos
    /\ \E input \in MainInputs :
         LET r == ExpandInternal(params, ctxs, transform.doFn, transform.context,
                                 input, pcollections, windowingStrategies,
                                 FreshProto(input))
         IN  /\ params' = r.params
             /\ ctxs' = r.ctxs
             /\ protos' = Append(protos, r.proto)
             /\ pcollections' = r.pcollections
             /\ last' = [NoLast EXCEPT !.op = "expand", !.err = r.err,
                                       !.input = input, !.ctx = r.contextCopy,
                                       !.value = r.output]
    /\ UNCHANGED <<transform, windowingStrategies, updates>>

Next == Build \/ Expand

Spec == Init /\ [][Next]_vars

-----------------------------------------------------------------------------
(* Tagging: SpecTag.  Graph construction on a fixed registry, with direct *)
(* calls of copySideInputWithId on any parameter object of the heap.      *)

\* copySideInputWithId(params[p], id)
Tag ==
    /\ Cardinality({c \in 1..Len(params) : params[c].proto # 0}) < MaxCopies
    /\ \E p \in 1..Len(params), id \in Tags :
         /\ ClassOf(params, p) = "SideInputParam"
         /\ LET c == CopySideInputWithId(params, p, id)
            IN  /\ params' = c.heap
                /\ last' = [NoLast EXCEPT !.op = "tag", !.param = p,
                                          !.ret = c.copy, !.value = id]
    /\ UNCHANGED <<ctxs, transform, protos, pcollections, windowingStrategies, updates>>

InitTag ==
    /\ params = DeclaredParams
    /\ ctxs \in {(CallerRef :> [proto |-> 0, own |-> c])
                 @@ (DefaultRef :> [proto |-> 0, own |-> <<[key |-> "b", val |-> ParamRef(1)]>>]) :
                    c \in Contexts}
    /\ transform = NoTransform
    /\ protos = <<>>
    /\ pcollections = ("pc1" :> "W1") @@ ("pc2" :> "WG") @@ ("pc3" :> "W2")
    /\ windowingStrategies = Strategies
    /\ updates = [p \in Providers |-> <<>>]
    /\ last = NoLast

NextTag == Build \/ Expand \/ Tag

SpecTag == InitTag /\ [][NextTag]_vars

-----------------------------------------------------------------------------
(* Execution-time binding: SpecParam.  The runtime attaches and detaches  *)
(* value providers; user code calls lookup and update.                    *)

InitParam ==
    /\ params = << NewSideInputParam("pc2", "beam:side_input:iterable:v1"),
                   NewParDoUpdateParam("counter") >>
    /\ ctxs = (CallerRef :> [proto |-> 0, own |-> <<>>])
              @@ (DefaultRef :> [proto |-> 0, own |-> <<>>])
    /\ transform = NoTransform
    /\ protos = <<>>
    /\ pcollections = ("pc1" :> "W1") @@ ("pc2" :> "WG") @@ ("pc3" :> "W2")
    /\ windowingStrategies = Strategies
    /\ updates = [p \in Providers |-> <<>>]
    /\ last = NoLast

\* the runtime starts an activation: param.provider = prov
Bind ==
    /\ \E p \in 1..Len(params), prov \in Providers :
         /\ params' = [params EXCEPT ![p].provider = prov]
         /\ last' = [NoLast EXCEPT !.op = "bind", !.param = p, !.value = prov]
    /\ UNCHANGED <<ctxs, transform, protos, pcollections, windowingStrategies, updates>>

\* the runtime ends the activation it started: param.provider = undefined
Unbind ==
    /\ \E p \in 1..Len(params) :
         /\ params[p].provider \in Providers
         /\ params' = [params EXCEPT ![p].provider = Undefined]
         /\ last' = [NoLast EXCEPT !.op = "unbind", !.param = p]
    /\ UNCHANGED <<ctxs, transform, protos, pcollections, windowingStrategies, updates>>

\* user code: param.lookup()
Lookup ==
    /\ \E p \in 1..Len(params) :
         /\ ClassOf(params, p) = "SideInputParam"
         /\ LET r == ParDoLookupParamLookup(params, p)
            IN  last' = [NoLast EXCEPT !.op = "lookup", !.param = p,
                                       !.err = r.err, !.value = r.value]
    /\ UNCHANGED <<params, ctxs, transform, protos, pcollections, windowingStrategies, updates>>

\* user code: param.update(value)
Update ==
    /\ \E p \in 1..Len(params), value \in UpdateValues :
         /\ ClassOf(params, p) = "ParDoUpdateParam"
         /\ \A prov \in Providers : Len(updates[prov]) < MaxUpdates
         /\ LET r == ParDoUpdateParamUpdate(params, updates, p, value)
            IN  /\ updates' = r.log
                /\ last' = [NoLast EXCEPT !.op = "update", !.param = p,
                                          !.err = r.err, !.value = value]
    /\ UNCHANGED <<params, ctxs, transform, protos, pcollections, windowingStrategies>>

NextParam == Tag \/ Bind \/ Unbind \/ Lookup \/ Update

SpecParam == InitParam /\ [][NextParam]_vars

-----------------------------------------------------------------------------
(* Vocabulary of the properties. *)

\* the last descriptor expandInternal ran on
LastProto == protos[Len(protos)]

\* the keys of a sequence of own properties, and the value under a key
KeysOf(own) == {own[i].key : i \in 1..Len(own)}
ValueOf(own, k) == own[CHOOSE i \in 1..Len(own) : own[i].key = k].val

\* the keys of own whose value is a side-input parameter
SideKeysOf(own) ==
    {own[i].key : i \in {j \in 1..Len(own) : InstanceOfSideInputParam(params, own[j].val)}}

\* the own properties of the context the transform captured
UsedOwn == ctxs[transform.context.n].own

\* the last step was an expansion that returned
Expanded == last.op = "expand" /\ last.err = ""

\* a side-input parameter whose dataset handle or windowing strategy the
\* registry does not resolve
Unresolvable(p) ==
    \/ Read(params, p, "pcoll") \notin DOMAIN pcollections
    \/ pcollections[Read(params, p, "pcoll")] \notin DOMAIN windowingStrategies

-----------------------------------------------------------------------------
(* C1.  After a successful expansion of a keyed context, the inputs added *)
(* to the descriptor are exactly "side." + k for the keys k that hold a   *)
(* side-input parameter, one per key, each valued with the id of that     *)
(* parameter's dataset handle; the payload's sideInputs map has exactly   *)
(* the same tags, each with the accessor's declared access pattern.       *)
C1_SideInputsRegistered ==
    (Expanded /\ transform.context.k = "obj") =>
        LET added == DOMAIN LastProto.inputs \ DOMAIN FreshProto(last.input).inputs
        IN  /\ added = {"side." \o k : k \in SideKeysOf(UsedOwn)}
            /\ Cardinality(added) = Cardinality(SideKeysOf(UsedOwn))
            /\ DOMAIN LastProto.spec.sideInputs = added
            /\ LastProto.inputs["main"] = last.input
            /\ \A k \in SideKeysOf(UsedOwn) :
                 /\ LastProto.inputs["side." \o k]
                        = Read(params, ValueOf(UsedOwn, k).n, "pcoll")
                 /\ LastProto.spec.sideInputs["side." \o k].accessPattern
                        = Read(params, ValueOf(UsedOwn, k).n, "accessor")

\* an expansion registered two side inputs
C1_Witness ==
    /\ Expanded
    /\ DOMAIN LastProto.spec.sideInputs = {"side.a", "side.b"}
    /\ LastProto.inputs["side.a"] # LastProto.inputs["side.b"]

(* C2.  The window-mapping urn of every side-input specification follows  *)
(* the fixed priority: global side strategy first (whatever the strategy  *)
(* ids), then equal strategy ids, then assign-max-timestamp.              *)
C2_WindowMappingPriority ==
    (Expanded /\ transform.context.k = "obj") =>
        \A k \in SideKeysOf(UsedOwn) :
            LET mainId == pcollections[last.input]
                sideId == pcollections[Read(params, ValueOf(UsedOwn, k).n, "pcoll")]
                global == windowingStrategies[sideId] = "beam:window_fn:global_windows:v1"
                urn == LastProto.spec.sideInputs["side." \o k].windowMappingFn
            IN  /\ global => urn = "urns.GLOBAL_WINDOW_MAPPING_FN_URN"
                /\ (~global /\ mainId = sideId) => urn = "urns.IDENTITY_WINDOW_MAPPING_FN_URN"
                /\ (~global /\ mainId # sideId)
                      => urn = "urns.ASSIGN_MAX_TIMESTAMP_WINDOW_MAPPING_FN_URN"

\* a global side input whose strategy id equals the main input's
C2_Witness ==
    /\ Expanded
    /\ last.input = "pc2"
    /\ "pc2" \in DOMAIN pcollections
    /\ pcollections["pc2"] = "WG"
    /\ "side.a" \in DOMAIN LastProto.spec.sideInputs
    /\ LastProto.inputs["side.a"] = "pc2"
    /\ LastProto.spec.sideInputs["side.a"].windowMappingFn = "urns.GLOBAL_WINDOW_MAPPING_FN_URN"

(* C3.  On a declared parameter, lookup and update throw the usage error  *)
(* exactly when its provider field holds no provider; otherwise lookup    *)
(* returns the provider's value for that instance and update hands the    *)
(* value to that provider once; neither changes any parameter object.     *)
C3_LookupUpdateContract ==
    [][ (last'.op \in {"lookup", "update"} /\ params[last'.param].proto = 0) =>
          LET p == last'.param
              prov == params[p].provider
              bound == prov \in Providers
          IN  /\ params' = params
              /\ last'.err = (IF bound THEN "" ELSE "usage")
              /\ (last'.op = "lookup") => updates' = updates
              /\ (last'.op = "lookup" /\ bound) => last'.value = ProviderLookup(prov, p)
              /\ (last'.op = "update" /\ ~bound) => updates' = updates
              /\ (last'.op = "update" /\ bound) =>
                    /\ updates'[prov] = Append(updates[prov], [param |-> p, value |-> last'.value])
                    /\ \A o \in Providers \ {prov} : updates'[o] = updates[o]
      ]_vars

\* a lookup on a declared parameter returned provB's value, after an update
\* was delegated to provA
C3_Witness ==
    /\ last.op = "lookup"
    /\ last.err = ""
    /\ params[last.param].proto = 0
    /\ last.value = ProviderLookup("provB", last.param)
    /\ updates["provA"] = <<[param |-> 2, value |-> "v2"]>>

(* C4.  A keyed context without side-input parameter expands to an empty  *)
(* side-input mapping, no added input and a rewritten context with the    *)
(* same keys and values; a context that is not a keyed mapping (a scalar, *)
(* undefined, or any other non-mapping value) is returned unchanged, with *)
(* an empty side-input mapping, and the expansion completes without error.*)
C4_NoSideInputContext ==
    (last.op = "expand") =>
        /\ (transform.context.k = "obj" /\ SideKeysOf(UsedOwn) = {}) =>
              /\ last.err = ""
              /\ LastProto.spec.sideInputs = EmptyMap
              /\ LastProto.inputs = FreshProto(last.input).inputs
              /\ last.ctx.k = "obj"
              /\ ctxs[last.ctx.n].own = UsedOwn
        /\ (transform.context.k # "obj") =>
              /\ last.err = ""
              /\ last.ctx = transform.context
              /\ LastProto.spec.sideInputs = EmptyMap
              /\ LastProto.inputs = FreshProto(last.input).inputs

(* C5.  Tagging only ever adds objects: every step leaves each existing   *)
(* parameter object as it was (the declared ones with no sideInputId, and *)
(* their pcoll and accessor), so the tag read from an existing copy never *)
(* changes; a direct tagging returns a new object whose tag is the one    *)
(* given; an expansion's new objects carry "side." + a context key.       *)
C5_TagIsCopyOnly ==
    [][ /\ Len(params') >= Len(params)
        /\ \A p \in 1..Len(params) :
             /\ params'[p] = params[p]
             /\ Read(params', p, "sideInputId") = Read(params, p, "sideInputId")
        /\ \A p \in 1..Len(DeclaredParams) :
             /\ params'[p].sideInputId = Absent
             /\ Read(params', p, "sideInputId") = Undefined
        /\ \A c \in (Len(params) + 1)..Len(params') :
             /\ params'[c].proto \in 1..Len(params)
             /\ params'[c].sideInputId # Absent
             /\ Read(params', c, "sideInputId") = params'[c].sideInputId
             /\ last'.op = "expand" =>
                   params'[c].sideInputId \in {"side." \o k : k \in KeysOf(UsedOwn)}
        /\ (last'.op = "tag") =>
             /\ Len(params') = Len(params) + 1
             /\ last'.ret = Len(params) + 1
             /\ params'[last'.ret].proto = last'.param
             /\ Read(params', last'.ret, "sideInputId") = last'.value
      ]_vars

\* two copies of one declared parameter carry different tags, one made by a
\* direct call and one by an expansion, and the declared parameter has none
C5_Witness ==
    \E a, b \in 1..Len(params) :
        /\ params[a].proto = 1
        /\ params[b].proto = 1
        /\ params[a].sideInputId = "t"
        /\ params[b].sideInputId = "side.b"
        /\ a < b
        /\ Len(protos) > 0
        /\ Read(params, 1, "sideInputId") = Undefined

(* C6.  When the only side-input parameter of the context references a    *)
(* dataset handle or a windowing strategy the registry does not resolve,  *)
(* the expansion throws, the descriptor is as it was before the call (no  *)
(* "side." input, no spec) and no output handle is allocated.             *)
C6_FailureBeforeConstruction ==
    (/\ last.op = "expand"
     /\ transform.context.k = "obj"
     /\ Cardinality(SideKeysOf(UsedOwn)) = 1
     /\ \E k \in SideKeysOf(UsedOwn) : Unresolvable(ValueOf(UsedOwn, k).n)) =>
        /\ last.err # ""
        /\ last.value = Undefined
        /\ LastProto = FreshProto(last.input)

(* C7.  No transform spec naming an empty export name is ever written to  *)
(* a descriptor, and expanding such a DoFn throws and allocates no output *)
(* handle.                                                                *)
C7_EmptyExportNameRejected ==
    /\ \A i \in 1..Len(protos) :
         protos[i].spec.urn # Undefined => protos[i].spec.doFn.payload # ""
    /\ (last.op = "expand" /\ transform.doFn.exportName = "") =>
         /\ last.err # ""
         /\ last.value = Undefined

\* the context the caller supplied and the DoFn's default, as own properties
CallerOwn == IF transform.callerContext.k = "obj" THEN ctxs[CallerRef].own ELSE <<>>
DefaultOwn == ctxs[DefaultRef].own
DefaultDeclared == transform.built /\ transform.doFn.beamPardoContextSpec.k = "obj"

\* the context used has the keys of either, the caller's value where the
\* caller has the key and the default's otherwise, and the side inputs of a
\* successful expansion are those of the context used
MergedContextUsed ==
    /\ transform.context.k = "obj"
    /\ KeysOf(UsedOwn) = KeysOf(DefaultOwn) \cup KeysOf(CallerOwn)
    /\ \A k \in KeysOf(UsedOwn) :
         ValueOf(UsedOwn, k) = IF k \in KeysOf(CallerOwn) THEN ValueOf(CallerOwn, k)
                               ELSE ValueOf(DefaultOwn, k)
    /\ Expanded =>
         DOMAIN LastProto.spec.sideInputs = {"side." \o k : k \in SideKeysOf(UsedOwn)}

C9_ExpansionFrame ==
    [][ /\ ctxs'[CallerRef] = ctxs[CallerRef]
        /\ ctxs'[DefaultRef] = ctxs[DefaultRef]
        /\ \A p \in 1..Len(params) : params'[p] = params[p]
        /\ \A i \in 1..Len(protos) : protos'[i] = protos[i]
        /\ windowingStrategies' = windowingStrategies
        /\ \A id \in DOMAIN pcollections :
             id \in DOMAIN pcollections' /\ pcollections'[id] = pcollections[id]
        /\ (last'.op = "build") => (pcollections' = pcollections /\ protos' = protos)
        /\ (last'.op = "expand") =>
             /\ transform' = transform
             /\ MergedRef \in DOMAIN ctxs => ctxs'[MergedRef] = ctxs[MergedRef]
             /\ Len(protos') = Len(protos) + 1
             /\ Cardinality(DOMAIN pcollections' \ DOMAIN pcollections)
                    = (IF last'.err = "" THEN 1 ELSE 0)
             /\ last'.err = "" => DOMAIN pcollections' \ DOMAIN pcollections = {last'.value}
      ]_vars

\* an expansion with a side input returned and a second one of the same
\* transform threw
C9_Witness ==
    /\ last.op = "expand"
    /\ last.err = "TypeError"
    /\ Len(protos) = 2
    /\ protos[1].spec.urn = LocalParDoUrn
    /\ DOMAIN protos[1].spec.sideInputs # {}
    /\ transform.callerContext.k = "obj"

(* C10.  Binding or unbinding a provider on one parameter instance does   *)
(* not change whether lookup on any other instance (the declared          *)
(* parameter or a tagged copy of it) throws the usage error.              *)
C10_BindingIsPerInstance ==
    [][ (last'.op \in {"bind", "unbind"}) =>
          \A q \in 1..Len(params) :
             (q # last'.param /\ ClassOf(params, q) = "SideInputParam") =>
                (ParDoLookupParamLookup(params', q).err = "usage")
                    <=> (ParDoLookupParamLookup(params, q).err = "usage")
      ]_vars

====
